---- MODULE Spec2Model ----
(***************************************************************************)
(* Model of the OTP service of Yaswanth332/API:                            *)
(*   chatapp.py               request-otp / verify-otp over user_store     *)
(*   quantum_otp_generator.py generate_quantum_otp, send_otp_by_email      *)
(*   adaptive_qrng.py         adaptive_rotation_qrng, fallback_qrng        *)
(* Strings of characters are sequences: a bit string is a sequence over    *)
(* {0,1}, a decimal string a sequence over 0..9.  Times are whole minutes. *)
(* Real numbers are exact rationals or fixed-point integers (see below).   *)
(***************************************************************************)
EXTENDS Integers, Sequences, FiniteSets, TLC

VARIABLES
    \* ---- chatapp.py ----
    user_store,     \* chatapp.user_store: email -> entry
    now,            \* datetime.now(timezone.utc), in minutes
    resp,           \* the response of the last handled request, with the handler's locals
    calls,          \* number of requests handled so far
    issued,         \* history: per email, the last two codes request_otp stored
    successes,      \* history: per email, verify successes since the last request_otp
    threads,        \* concurrent verify_otp handlers: position and locals of each
    \* ---- adaptive_qrng.py ----
    gen,            \* one call of adaptive_rotation_qrng: parameters, position, locals, result
    \* ---- generate_quantum_otp (both files) ----
    enc             \* one call of the bits -> OTP conversion: inputs and results

apiVars == <<user_store, now, resp, calls, issued, successes>>
vars == <<user_store, now, resp, calls, issued, successes, threads, gen, enc>>

(***************************************************************************)
(* Bounds of the model.                                                    *)
(***************************************************************************)
MaxBits == 5          \* longest bit string enumerated for the encoder
MaxDigits == 2        \* largest digit_length enumerated for the encoder
MaxTime == 6          \* the clock stops advancing here
MaxCalls == 3         \* requests handled in one behaviour of the API
MaxSeqLength == 3     \* largest seq_length of a generation
MaxNumSeqs == 2       \* largest num_seqs of a generation
MaxQubits == 3        \* largest n_qubits of a generation
NumThreads == 2       \* verify_otp handlers running at the same time
MaxConcRequests == 1  \* request_otp calls made beside them

(***************************************************************************)
(* Program constants.                                                      *)
(***************************************************************************)
OtpLength == 6        \* request_otp: generate_quantum_otp(6)
BitsPerDigit == 4     \* num_bits = length * 4
OtpTTL == 5           \* timedelta(minutes=5)
TokenTTL == 1440      \* timedelta(hours=24), in minutes
Pi == 3142            \* math.pi, in thousandths of a radian
HalfPi == 1571        \* init_theta=math.pi/2
DefaultLr == 500      \* lr=0.5
DefaultWarmup == 2    \* warmup=2
DefaultTolerance == 9 \* tolerance=0.009

(***************************************************************************)
(* Bit strings -> OTP.                                                     *)
(***************************************************************************)
RECURSIVE Pow(_, _)
Pow(b, e) == IF e = 0 THEN 1 ELSE b * Pow(b, e - 1)

\* int(bitstring, 2): the first character is the most significant bit
RECURSIVE IntBase2(_)
IntBase2(bitstring) ==
    IF bitstring = << >> THEN 0
    ELSE 2 * IntBase2(SubSeq(bitstring, 1, Len(bitstring) - 1))
         + bitstring[Len(bitstring)]

\* str(n) for n >= 0: the shortest decimal form
RECURSIVE DecimalDigits(_)
DecimalDigits(n) ==
    IF n < 10 THEN <<n>> ELSE Append(DecimalDigits(n \div 10), n % 10)

\* the mutant of FormatZeroPad: the width is dropped, as in str(n)
FormatNoPad(n, width) == DecimalDigits(n)

\* format(n, '0<width>d'): zeros on the left up to width, never a truncation
FormatZeroPad(n, width) ==
    LET d == DecimalDigits(n)
    IN  IF Len(d) >= width THEN d
        ELSE [i \in 1..(width - Len(d)) |-> 0] \o d

\* chatapp.generate_quantum_otp, from the measured bit string on
ChatappOtp(random_bitstring, length) ==
    LET random_integer == IntBase2(random_bitstring)
        otp_integer == random_integer % Pow(10, length)
    IN  FormatZeroPad(otp_integer, length)

\* quantum_otp_generator.generate_quantum_otp, from sequences[0] on
GeneratorOtp(bitstring, length) ==
    LET otp_integer == IntBase2(bitstring) % Pow(10, length)
    IN  FormatZeroPad(otp_integer, length)

\* all bit strings of length 1..n
BitStrings(n) == UNION {[1..k -> {0, 1}] : k \in 1..n}

\* the measured strings of a 6-digit OTP that the model draws from: 24 bits each
Zeros24 == [i \in 1..(OtpLength * BitsPerDigit) |-> 0]
Ones24 == [i \in 1..(OtpLength * BitsPerDigit) |-> 1]
Alt24 == [i \in 1..(OtpLength * BitsPerDigit) |-> i % 2]
MeasuredBitstrings == {Zeros24, Ones24, Alt24}
\* the strings the simulator of the API model returns
SimulatorBitstrings == {Zeros24, Alt24}

EncInputs ==
    (BitStrings(MaxBits) \X (1..MaxDigits))
    \cup (MeasuredBitstrings \X {OtpLength})

NoDigits == <<-1>>

EncInit ==
    /\ enc \in {[pc |-> "call", bits |-> in[1], length |-> in[2],
                 chatapp |-> NoDigits, generator |-> NoDigits] : in \in EncInputs}
    /\ user_store = << >> /\ now = 0 /\ resp = << >> /\ calls = 0
    /\ issued = << >> /\ successes = << >> /\ threads = << >> /\ gen = << >>

Encode ==
    /\ enc.pc = "call"
    /\ enc' = [enc EXCEPT !.pc = "done",
                          !.chatapp = ChatappOtp(enc.bits, enc.length),
                          !.generator = GeneratorOtp(enc.bits, enc.length)]
    /\ UNCHANGED <<apiVars, threads, gen>>

EncNext == Encode

SpecEnc == EncInit /\ [][EncNext]_vars

\* the value a decimal string denotes
RECURSIVE DecimalValue(_)
DecimalValue(d) ==
    IF d = << >> THEN 0
    ELSE 10 * DecimalValue(SubSeq(d, 1, Len(d) - 1)) + d[Len(d)]

\* the big-endian value of a bit string, as a sum of powers of two
BigEndianValue(bits) ==
    LET RECURSIVE Sum(_)
        Sum(i) == IF i > Len(bits) THEN 0
                  ELSE bits[i] * Pow(2, Len(bits) - i) + Sum(i + 1)
    IN  Sum(1)

IsOtpOf(otp, bits, length) ==
    /\ Len(otp) = length
    /\ \A i \in 1..Len(otp) : otp[i] \in 0..9
    /\ DecimalValue(otp) = BigEndianValue(bits) % Pow(10, length)

\* C4: for every bit string of length >= 1 and digit_length >= 1 the OTP is the
\* big-endian value of the bits modulo 10^digit_length, zero-padded to exactly
\* digit_length decimal digits; 24 bits 1010..10 give 184810, zeros give 000000.
C4_EncodeIsPaddedModulo ==
    enc.pc = "done" =>
        /\ IsOtpOf(enc.chatapp, enc.bits, enc.length)
        /\ IsOtpOf(enc.generator, enc.bits, enc.length)
        /\ (enc.bits = Alt24 /\ enc.length = OtpLength) => enc.chatapp = <<1, 8, 4, 8, 1, 0>>
        /\ (enc.bits = Zeros24 /\ enc.length = OtpLength) => enc.chatapp = <<0, 0, 0, 0, 0, 0>>

\* a value with fewer digits than digit_length was encoded: padding happened
C4_Witness ==
    /\ enc.pc = "done"
    /\ enc.length = 2
    /\ enc.bits = <<1, 0, 1>>
    /\ enc.generator = <<0, 5>>

(***************************************************************************)
(* chatapp.py: the store and the two handlers, one request at a time.      *)
(***************************************************************************)
Emails == {"a@x.org", "b@x.org"}
NoEmail == ""                    \* data.get('email') absent or empty
NoOtp == << >>                   \* data.get('otp') absent or empty
None == <<-1>>                   \* Python None in the place of an OTP string
NoneTime == -1                   \* Python None in the place of a datetime

\* the codes the simulator's measured strings encode to
Codes == {ChatappOtp(b, OtpLength) : b \in SimulatorBitstrings}

\* user_store.get(email) of an email never stored
Missing == [present |-> FALSE, otp |-> None, otp_expiration |-> NoneTime]
\* the entry verify_otp leaves behind
UsedEntry == [present |-> TRUE, otp |-> None, otp_expiration |-> NoneTime]

NoToken == [email |-> NoEmail, exp |-> NoneTime]
\* jwt.encode({'email': email, 'exp': now + 24 h}, ...)
JwtEncode(email, t) == [email |-> email, exp |-> t + TokenTTL]

\* chatapp.send_otp_by_email: what the call does, given the environment
\* (credentials set or not) and the SMTP server (session succeeds or raises)
send_otp_by_email(credentials, smtp_ok) ==
    IF ~credentials THEN "raise ValueError"
    ELSE IF smtp_ok THEN "return True"
    ELSE "return False"

\* the mutant of StoreAfterRequest: an email that has an entry keeps it
StoreAfterRequestKeepsOld(store, email, otp, otp_expiration) ==
    IF store[email].present /\ store[email].otp # None THEN store
    ELSE [store EXCEPT ![email] =
            [present |-> TRUE, otp |-> otp, otp_expiration |-> otp_expiration]]

\* user_store[email] = {"otp": otp, "otp_expiration": otp_expiration}
StoreAfterRequest(store, email, otp, otp_expiration) ==
    [store EXCEPT ![email] =
        [present |-> TRUE, otp |-> otp, otp_expiration |-> otp_expiration]]

\* the mutant of StoreAfterVerify: the entry is left as it was
StoreAfterVerifyKeeps(store, email) == store

\* user_store[email] = {"otp": None, "otp_expiration": None}
StoreAfterVerify(store, email) == [store EXCEPT ![email] = UsedEntry]

\* the mutant of IsExpired: the expiry is never looked at
IsExpiredNever(t, otp_expiration) == FALSE

\* datetime.now(timezone.utc) > user_data["otp_expiration"]
IsExpired(t, otp_expiration) == t > otp_expiration

ApiInit ==
    /\ user_store = [e \in Emails |-> Missing]
    /\ now = 0
    /\ resp = [op |-> "none", email |-> NoEmail, otp |-> NoOtp, status |-> 0,
               body |-> "", token |-> NoToken, user_data |-> Missing,
               at |-> 0, sent |-> ""]
    /\ calls = 0
    /\ issued = [e \in Emails |-> [prev |-> None, last |-> None, at |-> NoneTime, serial |-> 0]]
    /\ successes = [e \in Emails |-> 0]

Init ==
    /\ ApiInit
    /\ threads = << >> /\ gen = << >> /\ enc = << >>

\* time passes between and during requests
Tick ==
    /\ now < MaxTime
    /\ now' = now + 1
    /\ UNCHANGED <<user_store, resp, calls, issued, successes, threads, gen, enc>>

\* POST /api/request-otp without an email
RequestOtpNoEmail ==
    /\ calls < MaxCalls
    /\ calls' = calls + 1
    /\ resp' = [op |-> "request", email |-> NoEmail, otp |-> NoOtp, status |-> 400,
                body |-> "Email is required", token |-> NoToken,
                user_data |-> Missing, at |-> now, sent |-> ""]
    /\ UNCHANGED <<user_store, now, issued, successes, threads, gen, enc>>

\* POST /api/request-otp with an email: generate, store, send, answer;
\* at most `limit` requests are handled in a behaviour
HandleRequestOtp(limit) ==
    \E email \in Emails, random_bitstring \in SimulatorBitstrings,
       credentials \in BOOLEAN, smtp_ok \in BOOLEAN :
        LET otp == ChatappOtp(random_bitstring, OtpLength)
            otp_expiration == now + OtpTTL
            sent == send_otp_by_email(credentials, smtp_ok)
        IN  /\ calls < limit
            /\ calls' = calls + 1
            /\ user_store' = StoreAfterRequest(user_store, email, otp, otp_expiration)
            /\ resp' = [op |-> "request", email |-> email, otp |-> otp,
                        status |-> IF sent = "raise ValueError" THEN 500 ELSE 200,
                        body |-> IF sent = "raise ValueError"
                                 THEN "Failed to send OTP email." ELSE "OTP sent",
                        token |-> NoToken, user_data |-> user_store[email],
                        at |-> now, sent |-> sent]
            /\ issued' = [issued EXCEPT ![email] =
                            [prev |-> @.last, last |-> otp, at |-> now,
                             serial |-> calls + 1]]
            /\ successes' = [successes EXCEPT ![email] = 0]
            /\ UNCHANGED <<now, threads, gen, enc>>

RequestOtp == HandleRequestOtp(MaxCalls)

\* POST /api/verify-otp without an email or without an otp
VerifyOtpMissingField ==
    \E email \in Emails \cup {NoEmail}, submitted_otp \in Codes \cup {NoOtp} :
        /\ email = NoEmail \/ submitted_otp = NoOtp
        /\ calls < MaxCalls
        /\ calls' = calls + 1
        /\ resp' = [op |-> "verify", email |-> email, otp |-> submitted_otp,
                    status |-> 400, body |-> "Email and OTP are required",
                    token |-> NoToken, user_data |-> Missing, at |-> now, sent |-> ""]
        /\ UNCHANGED <<user_store, now, issued, successes, threads, gen, enc>>

\* the checks of verify_otp on the entry it read, in the code's order
VerifyError(user_data, submitted_otp, t) ==
    IF ~user_data.present THEN "No OTP found for this email"
    ELSE IF user_data.otp # submitted_otp THEN "Invalid OTP."
    ELSE IF IsExpired(t, user_data.otp_expiration) THEN "OTP has expired."
    ELSE ""

VerifyStatus(error) ==
    IF error = "" THEN 200
    ELSE IF error = "No OTP found for this email" THEN 404 ELSE 400

\* POST /api/verify-otp with both fields: look up, compare, check expiry,
\* issue the token and overwrite the entry
VerifyOtp ==
    \E email \in Emails, submitted_otp \in Codes :
        LET user_data == user_store[email]
            error == VerifyError(user_data, submitted_otp, now)
        IN  /\ calls < MaxCalls
            /\ calls' = calls + 1
            /\ resp' = [op |-> "verify", email |-> email, otp |-> submitted_otp,
                        status |-> VerifyStatus(error),
                        body |-> IF error = "" THEN "Verification successful!" ELSE error,
                        token |-> IF error = "" THEN JwtEncode(email, now) ELSE NoToken,
                        user_data |-> user_data, at |-> now, sent |-> ""]
            /\ user_store' = IF error = "" THEN StoreAfterVerify(user_store, email)
                             ELSE user_store
            /\ successes' = IF error = "" THEN [successes EXCEPT ![email] = @ + 1]
                            ELSE successes
            /\ UNCHANGED <<now, issued, threads, gen, enc>>

Next ==
    \/ Tick
    \/ RequestOtpNoEmail
    \/ RequestOtp
    \/ VerifyOtpMissingField
    \/ VerifyOtp

Spec == Init /\ [][Next]_vars

\* the successes of an email's current code before the last call
SuccessesBefore(e) ==
    IF resp.op = "verify" /\ resp.email = e /\ resp.status = 200
    THEN successes[e] - 1 ELSE successes[e]

\* C1: a code issued by one request-OTP makes verify-OTP succeed at most once: the
\* first verify-OTP with the correct code before expires_at succeeds, and every later
\* verify-OTP with that code, with no request-OTP in between, fails with
\* 'No OTP found' or 'Invalid OTP'.
C1_CodeSucceedsAtMostOnce ==
    \A e \in Emails :
        /\ successes[e] <= 1
        /\ (resp.op = "verify" /\ resp.email = e /\ resp.otp = issued[e].last) =>
            /\ (SuccessesBefore(e) = 0 /\ resp.at <= issued[e].at + OtpTTL) =>
                    (resp.status = 200 /\ resp.token # NoToken /\ successes[e] = 1)
            /\ SuccessesBefore(e) >= 1 =>
                    (/\ resp.body \in {"No OTP found for this email", "Invalid OTP."}
                     /\ resp.token = NoToken)

\* the code that had just succeeded was submitted again, in time, and was refused
C1_Witness ==
    \E e \in Emails :
        /\ resp.op = "verify" /\ resp.email = e /\ resp.otp = issued[e].last
        /\ successes[e] = 1
        /\ resp.user_data = UsedEntry
        /\ resp.at <= issued[e].at + OtpTTL
        /\ resp.body = "Invalid OTP."

\* C2: a verify-OTP made after the stored expires_at never succeeds and issues no
\* token; when the submitted code matches the stored one the error is
\* 'OTP has expired.'.
C2_ExpiredNeverSucceeds ==
    (/\ resp.op = "verify"
     /\ resp.user_data.present
     /\ resp.user_data.otp_expiration # NoneTime
     /\ resp.at > resp.user_data.otp_expiration) =>
        /\ resp.status # 200
        /\ resp.token = NoToken
        /\ resp.otp = resp.user_data.otp => resp.body = "OTP has expired."

\* the right code arrived one minute late
C2_Witness ==
    /\ resp.op = "verify"
    /\ resp.user_data.present
    /\ resp.otp = resp.user_data.otp
    /\ resp.at = resp.user_data.otp_expiration + 1
    /\ resp.body = "OTP has expired."
    /\ user_store[resp.email] = resp.user_data

\* C5: when the delivery fails during request-OTP (credentials missing, or an SMTP
\* error) the request is answered with the delivery failure, never with 'OTP sent'.
C5_DeliveryFailureReported ==
    (/\ resp.op = "request"
     /\ resp.email # NoEmail
     /\ resp.sent # "return True") =>
        /\ resp.status = 500
        /\ resp.body = "Failed to send OTP email."

\* C10: after a second request-OTP for an email only the most recently issued code,
\* within its own expiry, makes verify-OTP succeed; the earlier code, when it differs,
\* fails with 'Invalid OTP' and leaves the stored entry unchanged.
C10_OnlyLatestCodeVerifies ==
    \A e \in Emails :
        (resp.op = "verify" /\ resp.email = e) =>
            /\ resp.status = 200 =>
                /\ resp.otp = issued[e].last
                /\ resp.at <= issued[e].at + OtpTTL
            /\ (/\ issued[e].prev # None
                /\ resp.otp = issued[e].prev
                /\ resp.otp # issued[e].last) =>
                    /\ resp.body = "Invalid OTP."
                    /\ resp.status = 400
                    /\ user_store[e] = resp.user_data

\* two requests issued different codes, the earlier one was submitted while the
\* later one was live, and the later one is still stored
C10_Witness ==
    \E e \in Emails :
        /\ resp.op = "verify" /\ resp.email = e
        /\ issued[e].prev # None
        /\ resp.otp = issued[e].prev
        /\ resp.otp # issued[e].last
        /\ resp.body = "Invalid OTP."
        /\ user_store[e].otp = issued[e].last
        /\ user_store[e].otp_expiration = issued[e].at + OtpTTL

(***************************************************************************)
(* chatapp.py: verify_otp handlers running at the same time.  app.run()    *)
(* serves each request on its own thread; user_store is the one dict they  *)
(* all use.  A handler is cut at each access to user_store and to the      *)
(* clock; user_data is the handler's local reference to the entry it read. *)
(***************************************************************************)
Threads == 1..NumThreads

IdleThread ==
    [pc |-> "idle", email |-> NoEmail, submitted_otp |-> NoOtp,
     user_data |-> Missing, serial |-> 0, status |-> 0, body |-> "",
     token |-> NoToken]

ConcInit ==
    /\ ApiInit
    /\ threads = [t \in Threads |-> IdleThread]
    /\ gen = << >> /\ enc = << >>

\* a request arrives with both fields (lines 91-96 pass)
VStart(t) ==
    \E email \in Emails, submitted_otp \in Codes :
        /\ threads[t].pc = "idle"
        /\ threads' = [threads EXCEPT ![t].pc = "read", ![t].email = email,
                                      ![t].submitted_otp = submitted_otp]
        /\ UNCHANGED <<apiVars, gen, enc>>

\* user_data = user_store.get(email); 404 when there is none
VRead(t) ==
    LET user_data == user_store[threads[t].email]
    IN  /\ threads[t].pc = "read"
        /\ threads' = [threads EXCEPT
                ![t].user_data = user_data,
                ![t].serial = issued[threads[t].email].serial,
                ![t].pc = IF user_data.present THEN "compare" ELSE "done",
                ![t].status = IF user_data.present THEN 0 ELSE 404,
                ![t].body = IF user_data.present THEN ""
                            ELSE "No OTP found for this email"]
        /\ UNCHANGED <<apiVars, gen, enc>>

\* if user_data["otp"] != submitted_otp: 400
VCompare(t) ==
    LET differs == threads[t].user_data.otp # threads[t].submitted_otp
    IN  /\ threads[t].pc = "compare"
        /\ threads' = [threads EXCEPT
                ![t].pc = IF differs THEN "done" ELSE "expiry",
                ![t].status = IF differs THEN 400 ELSE 0,
                ![t].body = IF differs THEN "Invalid OTP." ELSE ""]
        /\ UNCHANGED <<apiVars, gen, enc>>

\* if datetime.now(timezone.utc) > user_data["otp_expiration"]: 400
VExpiry(t) ==
    LET expired == IsExpired(now, threads[t].user_data.otp_expiration)
    IN  /\ threads[t].pc = "expiry"
        /\ threads' = [threads EXCEPT
                ![t].pc = IF expired THEN "done" ELSE "token",
                ![t].status = IF expired THEN 400 ELSE 0,
                ![t].body = IF expired THEN "OTP has expired." ELSE ""]
        /\ UNCHANGED <<apiVars, gen, enc>>

\* token = jwt.encode(...)
VToken(t) ==
    /\ threads[t].pc = "token"
    /\ threads' = [threads EXCEPT ![t].pc = "overwrite",
                                  ![t].token = JwtEncode(threads[t].email, now)]
    /\ UNCHANGED <<apiVars, gen, enc>>

\* user_store[email] = {None, None}; return 200 with the token
VOverwrite(t) ==
    /\ threads[t].pc = "overwrite"
    /\ user_store' = StoreAfterVerify(user_store, threads[t].email)
    /\ threads' = [threads EXCEPT ![t].pc = "done", ![t].status = 200,
                                  ![t].body = "Verification successful!"]
    /\ UNCHANGED <<now, resp, calls, issued, successes, gen, enc>>

\* request_otp runs beside the verify_otp handlers; its one access to
\* user_store is the assignment of line 81
ConcRequestOtp == HandleRequestOtp(MaxConcRequests)

ConcNext ==
    \/ Tick
    \/ ConcRequestOtp
    \/ \E t \in Threads : VStart(t)
    \/ \E t \in Threads : VRead(t)
    \/ \E t \in Threads : VCompare(t)
    \/ \E t \in Threads : VExpiry(t)
    \/ \E t \in Threads : VToken(t)
    \/ \E t \in Threads : VOverwrite(t)

SpecConc == ConcInit /\ [][ConcNext]_vars

\* C9: of the verify-OTP requests for one email that carry the same correct,
\* unexpired code and are handled concurrently, at most one returns success and a
\* token.
C9_AtMostOneConcurrentSuccess ==
    \A t1, t2 \in Threads :
        (/\ t1 # t2
         /\ threads[t1].pc = "done" /\ threads[t1].status = 200
         /\ threads[t2].pc = "done" /\ threads[t2].status = 200
         /\ threads[t1].email = threads[t2].email
         /\ threads[t1].submitted_otp = threads[t2].submitted_otp) =>
            threads[t1].serial # threads[t2].serial

(***************************************************************************)
(* adaptive_qrng.py.  Angles are in thousandths of a radian, tolerance and *)
(* lr in thousandths; the balance summary is kept as exact fractions       *)
(* (numerators over total_bits) in place of the floats p0 * 100, p1 * 100. *)
(***************************************************************************)
Min(a, b) == IF a < b THEN a ELSE b

SeqLengths == 0..MaxSeqLength
NumSeqs == 0..MaxNumSeqs
Qubits == 0..MaxQubits
IterationCounts == {1, 2}        \* iterations; warmup is DefaultWarmup
InitThetas == {HalfPi, 4000}     \* math.pi/2, and an angle above pi
Tolerances == {DefaultTolerance, 1000}

NoProbs == [zeros |-> 0, ones |-> 0, total |-> 0]

\* the mutant of Truncate: the slice is forgotten
TruncateNothing(bits, n) == bits

\* collected_bits[:total_bits_needed]
Truncate(bits, n) == SubSeq(bits, 1, Min(n, Len(bits)))

\* [''.join(collected_bits[i:i+seq_length]) for i in range(0, len(collected_bits), seq_length)]
\* for seq_length >= 1 (range() raises ValueError on a step of 0)
Chunks(bits, seq_length) ==
    [k \in 1..((Len(bits) + seq_length - 1) \div seq_length) |->
        SubSeq(bits, (k - 1) * seq_length + 1, Min(k * seq_length, Len(bits)))]

\* sum(int(b) for b in collected_bits)
RECURSIVE CountOnes(_)
CountOnes(bits) ==
    IF bits = << >> THEN 0 ELSE Head(bits) + CountOnes(Tail(bits))

\* the history both paths build: iterations + warmup identical records
CompatHistory(iterations, warmup, init_theta, n_qubits) ==
    [it \in 1..(iterations + warmup) |->
        [iter |-> it - 1,
         thetas |-> [q \in 1..n_qubits |-> init_theta],
         p1 |-> [q \in 1..n_qubits |-> 500]]]

\* p0 = (total - ones) / total, p1 = ones / total
Probs(bits) ==
    [zeros |-> Len(bits) - CountOnes(bits), ones |-> CountOnes(bits),
     total |-> Len(bits)]

\* history, sequences, probs of lines 70-92 and 122-145, or the exception they raise
Finish(g, bits) ==
    IF g.seq_length = 0
    THEN [g EXCEPT !.collected_bits = bits, !.exception = "ValueError"]
    ELSE IF Len(bits) = 0
    THEN [g EXCEPT !.collected_bits = bits, !.exception = "ZeroDivisionError"]
    ELSE [g EXCEPT !.collected_bits = bits,
                   !.exception = "",
                   !.history = CompatHistory(g.iterations, g.warmup, g.init_theta,
                                             g.n_qubits),
                   !.sequences = Chunks(bits, g.seq_length),
                   !.probs = Probs(bits)]

\* the mutant of EnterFallback: the call ends with the error instead
EnterFallbackRaises(g, raised) ==
    [g EXCEPT !.pc = "done", !.outcome = "error", !.raised = raised,
              !.collected_bits = << >>, !.measured = << >>, !.circuit_num = 0]

\* return fallback_qrng(seq_length, num_seqs, n_qubits, iterations, warmup, init_theta):
\* the call goes on in fallback_qrng, with a new, empty collected_bits
EnterFallback(g, raised) ==
    [g EXCEPT !.pc = "fallback", !.source = "fallback", !.raised = raised,
              !.collected_bits = << >>, !.measured = << >>, !.circuit_num = 0]

GenCalls ==
    [pc : {"start"},
     n_qubits : Qubits, iterations : IterationCounts, warmup : {DefaultWarmup},
     init_theta : InitThetas, lr : {DefaultLr},
     seq_length : SeqLengths, num_seqs : NumSeqs, tolerance : Tolerances,
     api_token : BOOLEAN,
     source : {"none"}, raised : {FALSE}, outcome : {"running"}, exception : {""},
     circuits_needed : {0}, circuit_num : {0},
     collected_bits : {<< >>}, measured : {<< >>},
     history : {<< >>}, sequences : {<< >>}, probs : {NoProbs}]

GenInit ==
    /\ gen \in GenCalls
    /\ user_store = << >> /\ now = 0 /\ resp = << >> /\ calls = 0
    /\ issued = << >> /\ successes = << >> /\ threads = << >> /\ enc = << >>

\* if not api_token: return fallback_qrng(...)
NoApiToken ==
    /\ gen.pc = "start"
    /\ ~gen.api_token
    /\ gen' = EnterFallback(gen, FALSE)
    /\ UNCHANGED <<apiVars, threads, enc>>

\* QiskitRuntimeService(...), get_backend(...) or Session(...) raises
ServiceError ==
    /\ gen.pc = "start"
    /\ gen.api_token
    /\ gen' = EnterFallback(gen, TRUE)
    /\ UNCHANGED <<apiVars, threads, enc>>

\* lines 31-43: the session opens; circuits_needed is a ceiling division by n_qubits
OpenSession ==
    /\ gen.pc = "start"
    /\ gen.api_token
    /\ gen' = IF gen.n_qubits = 0
              THEN EnterFallback(gen, TRUE)      \* ZeroDivisionError, line 43
              ELSE [gen EXCEPT
                      !.pc = "circuits", !.source = "primary",
                      !.circuits_needed =
                          (gen.seq_length * gen.num_seqs + gen.n_qubits - 1)
                              \div gen.n_qubits]
    /\ UNCHANGED <<apiVars, threads, enc>>

\* one pass of the loop of line 45: a circuit of n_qubits Hadamards is measured once
RunCircuit ==
    \E bitstring \in [1..gen.n_qubits -> {0, 1}] :
        /\ gen.pc = "circuits"
        /\ gen.circuit_num < gen.circuits_needed
        /\ gen' = [gen EXCEPT !.collected_bits = @ \o bitstring,
                              !.measured = Append(@, bitstring),
                              !.circuit_num = @ + 1]
        /\ UNCHANGED <<apiVars, threads, enc>>

\* backend.run(...) or job.result() raises in a pass of the loop
CircuitError ==
    /\ gen.pc = "circuits"
    /\ gen.circuit_num < gen.circuits_needed
    /\ gen' = EnterFallback(gen, TRUE)
    /\ UNCHANGED <<apiVars, threads, enc>>

\* lines 66-92: truncate, build the result, return it; an exception raised on the
\* way is caught at line 94
PrimaryReturn ==
    LET done == Finish(gen, Truncate(gen.collected_bits,
                                     gen.seq_length * gen.num_seqs))
    IN  /\ gen.pc = "circuits"
        /\ gen.circuit_num = gen.circuits_needed
        /\ gen' = IF done.exception # ""
                  THEN EnterFallback(gen, TRUE)
                  ELSE [done EXCEPT !.pc = "done", !.outcome = "returned"]
        /\ UNCHANGED <<apiVars, threads, enc>>

\* one pass of the loop of line 113: bit = 1 if random.random() < prob_1 else 0
FallbackBit ==
    \E bit \in {0, 1} :
        /\ gen.pc = "fallback"
        /\ Len(gen.collected_bits) < gen.seq_length * gen.num_seqs
        /\ gen' = [gen EXCEPT !.collected_bits = Append(@, bit)]
        /\ UNCHANGED <<apiVars, threads, enc>>

\* lines 122-145: build the result and return it; an exception raised here
\* leaves adaptive_rotation_qrng
FallbackReturn ==
    LET done == Finish(gen, gen.collected_bits)
    IN  /\ gen.pc = "fallback"
        /\ Len(gen.collected_bits) = gen.seq_length * gen.num_seqs
        /\ gen' = [done EXCEPT !.pc = "done",
                               !.outcome = IF done.exception # "" THEN "error"
                                           ELSE "returned"]
        /\ UNCHANGED <<apiVars, threads, enc>>

GenNext ==
    \/ NoApiToken
    \/ ServiceError
    \/ OpenSession
    \/ RunCircuit
    \/ CircuitError
    \/ PrimaryReturn
    \/ FallbackBit
    \/ FallbackReturn

SpecGen == GenInit /\ [][GenNext]_vars

Returned == gen.pc = "done" /\ gen.outcome = "returned"

Abs(x) == IF x < 0 THEN 0 - x ELSE x

\* C3: every result the generator returns, on the primary path and on the fallback
\* path, is an accepted generation: |p0 - p1| <= tolerance over the whole bit stream.
C3_ReturnedIsBalanced ==
    Returned =>
        Abs(gen.probs.zeros - gen.probs.ones) * 1000
            <= gen.tolerance * gen.probs.total

PrimaryUnavailable == ~gen.api_token \/ gen.raised

\* C6: when the primary source is unavailable (no token) or raises during the
\* generation, adaptive_rotation_qrng ends with an error and returns no bits
\* produced by another source.
C6_NoFallbackInsideCore ==
    (gen.pc = "done" /\ PrimaryUnavailable) =>
        (gen.outcome = "error" /\ gen.sequences = << >>)

\* C6 as amended: when the primary source is unavailable or raises, and at least one
\* bit is asked for, adaptive_rotation_qrng returns the result of fallback_qrng; the
\* bits of a returned result come from the fallback exactly in that case.
C6_FallbackResultReturned ==
    gen.pc = "done" =>
        /\ (PrimaryUnavailable /\ gen.seq_length * gen.num_seqs >= 1) =>
                (/\ gen.outcome = "returned"
                 /\ gen.source = "fallback"
                 /\ gen.measured = << >>
                 /\ Len(gen.sequences) = gen.num_seqs)
        /\ (Returned /\ gen.source = "fallback") => PrimaryUnavailable
        /\ gen.outcome = "error" => gen.seq_length * gen.num_seqs = 0

\* a token was set, the primary path raised, and the call returned bits of the
\* fallback all the same
C6_Witness ==
    /\ Returned
    /\ gen.api_token /\ gen.raised
    /\ gen.n_qubits >= 1
    /\ gen.source = "fallback"
    /\ gen.seq_length * gen.num_seqs >= 2
    /\ Len(gen.collected_bits) = gen.seq_length * gen.num_seqs

\* clamp to [0, pi]
Clamp(theta) == IF theta < 0 THEN 0 ELSE IF theta > Pi THEN Pi ELSE theta

\* clamp(previous + lr * (0.5 - ones / shots), 0, pi), in thousandths of a radian
FeedbackUpdate(previous, lr, ones, shots) ==
    Clamp(previous + (lr * (shots - 2 * ones)) \div (2 * shots))

\* the measurements of qubit q of the primary path: one bit of each circuit run
ChannelOnes(q) == CountOnes([k \in 1..Len(gen.measured) |-> gen.measured[k][q]])

\* C7: in the returned History, for every round and channel the recorded bias is
\* clamp(previous bias + learning_rate * (0.5 - p1_c), 0, pi), with p1_c the
\* 1-fraction observed for the channel: it rises when p1_c < 0.5, falls when
\* p1_c > 0.5 and stays in [0, pi].
C7_HistoryFollowsFeedback ==
    Returned =>
        \A r \in 1..Len(gen.history) : \A q \in 1..gen.n_qubits :
            LET previous == IF r = 1 THEN gen.init_theta
                            ELSE gen.history[r - 1].thetas[q]
                recorded == gen.history[r].thetas[q]
            IN  /\ recorded \in 0..Pi
                /\ recorded = FeedbackUpdate(previous, gen.lr,
                                             gen.history[r].p1[q], 1000)
                /\ gen.source = "primary" =>
                    /\ gen.history[r].p1[q] * Len(gen.measured)
                            = 1000 * ChannelOnes(q)
                    /\ recorded = FeedbackUpdate(previous, gen.lr, ChannelOnes(q),
                                                 Len(gen.measured))

RECURSIVE Flatten(_)
Flatten(ss) == IF ss = << >> THEN << >> ELSE Head(ss) \o Flatten(Tail(ss))

\* C8: for seq_length, num_seqs, n_qubits >= 1 a generation that returns, on either
\* path, yields exactly seq_length * num_seqs bits in exactly num_seqs sequences of
\* seq_length characters '0'/'1' each; bits collected beyond that are discarded.
C8_ExactlyTargetBits ==
    (Returned /\ gen.seq_length >= 1 /\ gen.num_seqs >= 1) =>
        /\ Len(gen.collected_bits) = gen.seq_length * gen.num_seqs
        /\ Len(gen.sequences) = gen.num_seqs
        /\ \A k \in 1..Len(gen.sequences) :
               /\ Len(gen.sequences[k]) = gen.seq_length
               /\ \A i \in 1..Len(gen.sequences[k]) : gen.sequences[k][i] \in {0, 1}
        /\ Flatten(gen.sequences) = gen.collected_bits
        /\ gen.probs.total = gen.seq_length * gen.num_seqs
        /\ gen.source = "primary" =>
               /\ gen.n_qubits >= 1
               /\ Len(Flatten(gen.measured)) >= gen.seq_length * gen.num_seqs
               /\ gen.collected_bits =
                      SubSeq(Flatten(gen.measured), 1, gen.seq_length * gen.num_seqs)

\* the primary path measured more bits than asked for and returned two sequences
C8_Witness ==
    /\ Returned
    /\ gen.source = "primary"
    /\ gen.num_seqs = 2
    /\ Len(Flatten(gen.measured)) > gen.seq_length * gen.num_seqs
    /\ Len(gen.sequences) = 2

====
